---- MODULE Spec2Model ----
(***************************************************************************)
(* TinyRuleChecker: the tokenizer, the single-pass recursive-descent       *)
(* parser/evaluator, the built-in methods and the FastStringLookup table.  *)
(*                                                                         *)
(* Text is a sequence of characters; a character is a one-character string *)
(* (control characters without a TLA+ escape carry a name).  A C string is *)
(* the sequence followed by the terminator NUL.  Positions are 1-based;    *)
(* the NULL pointer is position 0.                                         *)
(***************************************************************************)
EXTENDS Integers, Sequences, FiniteSets, TLC

VARIABLES
  _variables,   \* FastStringLookup<VarValue>       (tinyrulechecker.h:131)
  _methods,     \* FastStringLookup<MethodOperator> (tinyrulechecker.h:132)
  expr,         \* the text handed to eval()
  garbage,      \* the bytes that follow the terminator of expr in memory
  er,           \* the EvalResult of the last eval()
  pc,           \* position of the host program
  ref,          \* history: the exact map the variable table stands for
  verdict,      \* the EvalResults of receiver.m(argument), one per method
  parts         \* history: the pieces expr was assembled from

vars == <<_variables, _methods, expr, garbage, er, pc, ref, verdict, parts>>

(***************************************************************************)
(* Characters                                                              *)
(***************************************************************************)
NUL == "NUL"
VT  == "VT"
BQ  == "BQ"    \* the backquote, byte 96

Printable ==
  << " ", "!", "\"", "#", "$", "%", "&", "'", "(", ")", "*", "+", ",", "-", ".", "/",
     "0", "1", "2", "3", "4", "5", "6", "7", "8", "9", ":", ";", "<", "=", ">", "?",
     "@", "A", "B", "C", "D", "E", "F", "G", "H", "I", "J", "K", "L", "M", "N", "O",
     "P", "Q", "R", "S", "T", "U", "V", "W", "X", "Y", "Z", "[", "\\", "]", "^", "_",
     BQ, "a", "b", "c", "d", "e", "f", "g", "h", "i", "j", "k", "l", "m", "n", "o",
     "p", "q", "r", "s", "t", "u", "v", "w", "x", "y", "z", "{", "|", "}", "~" >>

\* the byte value of a character
Code ==
  [c \in {Printable[i] : i \in 1..Len(Printable)} |->
       31 + (CHOOSE i \in 1..Len(Printable) : Printable[i] = c)]
  @@ (NUL :> 0) @@ ("\t" :> 9) @@ ("\n" :> 10) @@ (VT :> 11)
  @@ ("\f" :> 12) @@ ("\r" :> 13)

(***************************************************************************)
(* Token and value types                                                   *)
(***************************************************************************)
TK_UNKNOWN == "u"
TK_ID == "i"
TK_INT == "n"
TK_FLOAT == "f"
TK_RAW_STRING == "s"
TK_RAW_STRING_NO_ESCAPE == "S"
TK_UNTERMINATED_STRING == "t"
TK_AND == "&"
TK_OR == "|"
TK_NOT == "!"
TK_DOT == "."
TK_LPAR == "("
TK_RPAR == ")"
TK_LBRACE == "["
TK_RBRACE == "]"
TK_COMMA == ","
TK_SPACE == " "
TK_EOF == "e"

V_TYPE_INT == "i"
V_TYPE_FLOAT == "f"
V_TYPE_STRING == "s"
V_TYPE_ARRAY == "a"

NULL == 0

(***************************************************************************)
(* The two 256-entry classification tables, indexed by byte value.  Rows   *)
(* 8..15 (bytes 128..255) hold TK_UNKNOWN only and are not transcribed:    *)
(* every character of the model is ASCII.                                  *)
(***************************************************************************)
_TOKEN_LOOKUP_TABLE ==
  << "e","u","u","u","u","u","u","u","u"," "," "," "," "," ","u","u",
     "u","u","u","u","u","u","u","u","u","u","u","u","u","u","u","u",
     " ","!","s","u","u","u","&","s","(",")","u","n",",","n",".","u",
     "n","n","n","n","n","n","n","n","n","n","u","u","u","u","u","u",
     "u","i","i","i","i","i","i","i","i","i","i","i","i","i","i","i",
     "i","i","i","i","i","i","i","i","i","i","i","[","u","]","u","i",
     "u","i","i","i","i","i","i","i","i","i","i","i","i","i","i","i",
     "i","i","i","i","i","i","i","i","i","i","i","u","|","u","u","u" >>

_TOKEN_LOOKUP_ID ==
  << "e","u","u","u","u","u","u","u","u","u","u","u","u","u","u","u",
     "u","u","u","u","u","u","u","u","u","u","u","u","u","u","u","u",
     "u","u","u","u","u","u","u","u","u","u","u","u","u","u","u","u",
     "i","i","i","i","i","i","i","i","i","i","u","u","u","u","u","u",
     "u","i","i","i","i","i","i","i","i","i","i","i","i","i","i","i",
     "i","i","i","i","i","i","i","i","i","i","i","u","u","u","u","i",
     "u","i","i","i","i","i","i","i","i","i","i","i","i","i","i","i",
     "i","i","i","i","i","i","i","i","i","i","i","u","u","u","u","u" >>

\* _TOKEN_LOOKUP_TABLE[*expr] and _TOKEN_LOOKUP_ID[*expr]
TokenClass(c) == _TOKEN_LOOKUP_TABLE[Code[c] + 1]
IdClass(c) == _TOKEN_LOOKUP_ID[Code[c] + 1]

IsDigit(c) == Code[c] >= Code["0"] /\ Code[c] <= Code["9"]

(***************************************************************************)
(* Memory: *p for a pointer p into the C string e.  The byte at Len(e)+1   *)
(* is the terminator; what lies behind it is not part of the string and is *)
(* whatever the memory holds there (garbage, then zeroes).                 *)
(***************************************************************************)
Mem(e, p) ==
  IF p <= Len(e) THEN e[p]
  ELSE IF p = Len(e) + 1 THEN NUL
  ELSE IF p - Len(e) - 1 <= Len(garbage) THEN garbage[p - Len(e) - 1]
  ELSE NUL

\* std::string_view(start, end - start)
RECURSIVE Slice(_, _, _)
Slice(e, start, end) ==
  IF start >= end THEN << >> ELSE << Mem(e, start) >> \o Slice(e, start + 1, end)

(***************************************************************************)
(* _nextToken                                                              *)
(***************************************************************************)
\* A float is held in fixed point, in units of 1/FloatScale, or is NaN.  The
\* literals of the model have at most FracDigits digits after the dot, so
\* that fraction / divisor and the sum are exact in the model as they are in
\* binary floating point for the fractions used (0, .5, .25, .75).
FracDigits == 2

RECURSIVE Pow10(_)
Pow10(n) == IF n = 0 THEN 1 ELSE 10 * Pow10(n - 1)

FloatScale == Pow10(FracDigits)
Fixed(n) == [nan |-> FALSE, num |-> n]
NaN == [nan |-> TRUE, num |-> 0]

\* Token{} of a value-initialised ParseState
Token0 == [type |-> NUL, value |-> << >>, intval |-> 0, floatval |-> Fixed(0)]

\* the blanks skipped with an if in place of the while
SkipOneSpace(e, p) == IF TokenClass(Mem(e, p)) = TK_SPACE THEN p + 1 ELSE p

\* while (_TOKEN_LOOKUP_TABLE[*expr] == TK_SPACE) expr++;
RECURSIVE SkipSpaces(_, _)
SkipSpaces(e, p) ==
  IF TokenClass(Mem(e, p)) = TK_SPACE THEN SkipSpaces(e, p + 1) ELSE p

\* while (_TOKEN_LOOKUP_ID[*expr] == TK_ID) expr++;
RECURSIVE ScanId(_, _)
ScanId(e, p) ==
  IF IdClass(Mem(e, p)) = TK_ID THEN ScanId(e, p + 1) ELSE p

\* the loop over the content of a quoted string
RECURSIVE ScanString(_, _, _, _)
ScanString(e, p, quoteChar, escapeCharFound) ==
  IF Mem(e, p) # NUL /\ Mem(e, p) # quoteChar
  THEN ScanString(e, p + (IF Mem(e, p) = "\\" THEN 1 ELSE 0) + 1, quoteChar,
                  escapeCharFound \/ Mem(e, p) = "\\")
  ELSE [pos |-> p, escapeCharFound |-> escapeCharFound]

\* while (*expr >= '0' && *expr <= '9') acc = acc * 10 + (*expr - '0');
\* n counts the digits read
RECURSIVE ScanDigits(_, _, _, _)
ScanDigits(e, p, acc, n) ==
  IF IsDigit(Mem(e, p))
  THEN ScanDigits(e, p + 1, acc * 10 + (Code[Mem(e, p)] - Code["0"]), n + 1)
  ELSE [pos |-> p, acc |-> acc, n |-> n]

\* case TK_INT of _nextToken, the digits behind the dot: fp is the scan of
\* the fraction, intval the integer part with its sign
DecodeFraction(e, p, intval, fp) ==
  [next |-> fp.pos,
   token |-> [type |-> TK_FLOAT, value |-> Slice(e, p, fp.pos), intval |-> intval,
              floatval |-> Fixed(intval * FloatScale
                                 + (fp.acc * FloatScale) \div Pow10(fp.n))]]

\* case TK_INT of _nextToken behind the integer part, which ends before pos
DecodeTail(e, p, t, pos, intval) ==
  IF Mem(e, pos) = "."
  THEN DecodeFraction(e, p, intval, ScanDigits(e, pos + 1, 0, 0))
  ELSE [next |-> pos,
        token |-> [type |-> TK_INT, value |-> Slice(e, p, pos),
                   intval |-> intval, floatval |-> t.floatval]]

\* if (negative) t.intval = -t.intval;   ip is the scan of the integer part
DecodeSign(e, p, t, ip) ==
  DecodeTail(e, p, t, ip.pos, IF Mem(e, p) = "-" THEN 0 - ip.acc ELSE ip.acc)

\* case TK_INT of _nextToken: the decoded value of a numeric literal whose
\* first byte (a digit or a sign) is at p
DecodeNumber(e, p, t) ==
  DecodeSign(e, p, t,
             ScanDigits(e, p + 1,
                        IF IsDigit(Mem(e, p)) THEN Code[Mem(e, p)] - Code["0"] ELSE 0, 0))

\* case TK_RAW_STRING of _nextToken behind the loop: sc is the scan of the
\* content, which starts at p
QuotedToken(e, p, t, quoteChar, sc) ==
  IF Mem(e, sc.pos) = quoteChar
  THEN [next |-> sc.pos + 1,
        token |-> [t EXCEPT !.type = IF sc.escapeCharFound THEN TK_RAW_STRING
                                     ELSE TK_RAW_STRING_NO_ESCAPE,
                            !.value = Slice(e, p, sc.pos)]]
  ELSE [next |-> sc.pos,
        token |-> [t EXCEPT !.type = TK_UNTERMINATED_STRING,
                            !.value = Slice(e, p, sc.pos)]]

\* case TK_RAW_STRING of _nextToken: p is at the opening quote
ScanQuoted(e, p, t) ==
  QuotedToken(e, p + 1, t, Mem(e, p), ScanString(e, p + 1, Mem(e, p), FALSE))

\* the cases of one character: t.value = std::string_view{expr, 1}; expr++;
OneChar(e, s, t, type) ==
  [next |-> s + 1, token |-> [t EXCEPT !.type = type, !.value = << Mem(e, s) >>]]

\* case TK_ID of _nextToken: the identifier ends before q
IdToken(e, s, t, q) ==
  [next |-> q, token |-> [t EXCEPT !.type = TK_ID, !.value = Slice(e, s, q)]]

\* case TK_AND and case TK_OR of _nextToken
TwoChars(e, s, t, type) ==
  IF Mem(e, s + 1) = Mem(e, s)
  THEN [next |-> s + 2, token |-> [t EXCEPT !.type = type, !.value = Slice(e, s, s + 2)]]
  ELSE [next |-> s, token |-> [t EXCEPT !.type = TK_UNKNOWN, !.value = << Mem(e, s) >>]]

\* the switch of _nextToken: s is start_expr, type the class of its byte
TokenSwitch(e, s, t, type) ==
  CASE type = TK_ID -> IdToken(e, s, t, ScanId(e, s + 1))
    [] type = TK_RAW_STRING -> ScanQuoted(e, s, t)
    [] type = TK_INT -> DecodeNumber(e, s, t)
    [] type \in {TK_LPAR, TK_RPAR, TK_LBRACE, TK_RBRACE, TK_NOT, TK_DOT, TK_COMMA} ->
         OneChar(e, s, t, type)
    [] type \in {TK_AND, TK_OR} -> TwoChars(e, s, t, type)
    [] type = TK_EOF ->
         [next |-> NULL, token |-> [t EXCEPT !.type = TK_EOF, !.value = << >>]]
    [] OTHER -> OneChar(e, s, t, TK_UNKNOWN)

\* _nextToken behind the blanks: s is start_expr
TokenAt(e, s, t) == TokenSwitch(e, s, t, TokenClass(Mem(e, s)))

\* _nextToken(expr, t): the pointer returned (NULL when there is no token)
\* and the token t as the call leaves it
NextToken(e, p, t) ==
  IF p = NULL \/ Mem(e, p) = NUL
  THEN [next |-> NULL, token |-> [t EXCEPT !.type = TK_EOF, !.value = << >>]]
  ELSE TokenAt(e, SkipSpaces(e, p), t)

(***************************************************************************)
(* FastStringLookup<T>                                                     *)
(*                                                                         *)
(* _lookup and _lookupNames are vectors of LookupSize entries.  They are   *)
(* held as functions on the slots written so far: a slot outside the       *)
(* domain of lookup holds 0, one outside the domain of lookupNames holds   *)
(* the empty string.  A uint32_t is held as two 16-bit halves.             *)
(***************************************************************************)
LookupSize == 1021
PRIME == 16777619
Half == 256 * 256

RECURSIVE Xor(_, _)
Xor(a, b) ==
  IF a = 0 /\ b = 0 THEN 0
  ELSE (IF a % 2 = b % 2 THEN 0 ELSE 1) + 2 * Xor(a \div 2, b \div 2)

\* result ^= data[i]; result *= PRIME;   (modulo 2^32)
FnvStep(result, byte) ==
  LET lo == Xor(result.lo, byte)
      pl == PRIME % Half
      ph == PRIME \div Half
  IN [lo |-> (lo * pl) % Half,
      hi |-> (result.hi * pl + lo * ph + (lo * pl) \div Half) % Half]

RECURSIVE FnvFrom(_, _, _)
FnvFrom(data, i, result) ==
  IF i > Len(data) THEN result
  ELSE FnvFrom(data, i + 1, FnvStep(result, Code[data[i]]))

_fnvHash32v(data) == FnvFrom(data, 1, [hi |-> 0, lo |-> 0])

\* _fnvHash32v(key) % _lookup.size()
QKey(key) ==
  LET h == _fnvHash32v(key)
  IN ((h.hi % LookupSize) * (Half % LookupSize) + h.lo) % LookupSize

\* the table after the constructor, and after clear() of a fresh table
EmptyTable ==
  [lookup |-> << >>, lookupNames |-> << >>, values |-> << >>, lookupMap |-> << >>]

SlotOf(tbl, qkey) == IF qkey \in DOMAIN tbl.lookup THEN tbl.lookup[qkey] ELSE 0

\* FastStringLookup<T>::clear: _lookupNames is left as it is
TableClear(tbl) ==
  [tbl EXCEPT !.lookupMap = << >>, !.values = << >>, !.lookup = << >>]

\* set() without the overflow mark: the slot always takes the new index
SlotValueNoOverflow(old, index) == index + 1

\* the value set() stores into the slot
SlotValue(old, index) == IF old = 0 THEN index + 1 ELSE LookupSize

\* FastStringLookup<T>::set
TableSet(tbl, key, value) ==
  LET index == Len(tbl.values)
      qkey == QKey(key)
  IN [values |-> Append(tbl.values, value),
      lookupMap |-> (key :> index) @@ tbl.lookupMap,
      lookup |-> (qkey :> SlotValue(SlotOf(tbl, qkey), index)) @@ tbl.lookup,
      lookupNames |-> (qkey :> key) @@ tbl.lookupNames]

\* get() behind the hash: index is the content of the slot qkey
SlotGet(tbl, key, qkey, index) ==
  IF index = 0 THEN << >>
  ELSE IF index < LookupSize
  THEN IF tbl.lookupNames[qkey] = key THEN << tbl.values[index] >> ELSE << >>
  ELSE IF key \in DOMAIN tbl.lookupMap
       THEN << tbl.values[tbl.lookupMap[key] + 1] >>
       ELSE << >>

HashedGet(tbl, key, qkey) == SlotGet(tbl, key, qkey, SlotOf(tbl, qkey))

\* FastStringLookup<T>::get: << >> is the NULL pointer, << v >> points to v
TableGet(tbl, key) == HashedGet(tbl, key, QKey(key))

(***************************************************************************)
(* Values and the built-in methods (initMethods)                           *)
(*                                                                         *)
(* A VarValue holds all its fields at once; the scalar fields that the     *)
(* constructor of a value does not assign are never read by the methods    *)
(* (each reads the field its type check selected) and are held as 0, and   *)
(* strval and array are empty until assigned.                              *)
(***************************************************************************)
IntValue(n) ==
  [type |-> V_TYPE_INT, intval |-> n, floatval |-> Fixed(0), strval |-> << >>, array |-> << >>]
FloatValue(f) ==
  [type |-> V_TYPE_FLOAT, intval |-> 0, floatval |-> f, strval |-> << >>, array |-> << >>]
StringValue(s) ==
  [type |-> V_TYPE_STRING, intval |-> 0, floatval |-> Fixed(0), strval |-> s, array |-> << >>]
ArrayValue(a) ==
  [type |-> V_TYPE_ARRAY, intval |-> 0, floatval |-> Fixed(0), strval |-> << >>, array |-> a]

\* the comparison operators of float
FloatEq(a, b) == ~a.nan /\ ~b.nan /\ a.num = b.num
FloatLt(a, b) == ~a.nan /\ ~b.nan /\ a.num < b.num
FloatGt(a, b) == ~a.nan /\ ~b.nan /\ a.num > b.num
FloatLe(a, b) == ~a.nan /\ ~b.nan /\ a.num <= b.num
FloatGe(a, b) == ~a.nan /\ ~b.nan /\ a.num >= b.num

\* the comparison operators of std::string: lexicographic on the bytes
RECURSIVE StrLt(_, _)
StrLt(a, b) ==
  IF b = << >> THEN FALSE
  ELSE IF a = << >> THEN TRUE
  ELSE IF Code[Head(a)] # Code[Head(b)] THEN Code[Head(a)] < Code[Head(b)]
  ELSE StrLt(Tail(a), Tail(b))

\* haystack.find(needle) != std::string::npos
Find(haystack, needle) ==
  \E i \in 0..(Len(haystack) - Len(needle)) :
     SubSeq(haystack, i + 1, i + Len(needle)) = needle

\* what a MethodOperator leaves: its return value and the EvalResult
Verdict(b) == [ok |-> TRUE, result |-> b, error |-> << >>]
Failure(msg) == [ok |-> FALSE, result |-> FALSE, error |-> msg]

\* the message with the two type tags in the other order
TypeMismatchSwapped(v1, v2) ==
  Failure(<< "type mismatch: type ", v2.type, " vs ", v1.type >>)

TypeMismatch(v1, v2) ==
  Failure(<< "type mismatch: type ", v1.type, " vs ", v2.type >>)
Unsupported(name, type) ==
  Failure(<< "unsupported operation '", name, "' with type '", type, "'" >>)

\* ENSURE_SAME_TYPE followed by the switch on v1.type
Compare(name, v1, v2, onInt, onFloat, onString) ==
  IF v1.type # v2.type THEN TypeMismatch(v1, v2)
  ELSE CASE v1.type = V_TYPE_INT -> Verdict(onInt)
         [] v1.type = V_TYPE_FLOAT -> Verdict(onFloat)
         [] v1.type = V_TYPE_STRING -> Verdict(onString)
         [] OTHER -> Unsupported(name, v1.type)

M_eq(v1, v2) ==
  Compare("eq", v1, v2, v1.intval = v2.intval,
          FloatEq(v1.floatval, v2.floatval), v1.strval = v2.strval)
M_neq(v1, v2) ==
  Compare("neq", v1, v2, v1.intval # v2.intval,
          ~FloatEq(v1.floatval, v2.floatval), v1.strval # v2.strval)
M_gt(v1, v2) ==
  Compare("gt", v1, v2, v1.intval > v2.intval,
          FloatGt(v1.floatval, v2.floatval), StrLt(v2.strval, v1.strval))
\* gte written with the operators of gt
M_gteStrict(v1, v2) ==
  Compare("gte", v1, v2, v1.intval > v2.intval,
          FloatGt(v1.floatval, v2.floatval), StrLt(v2.strval, v1.strval))

M_gte(v1, v2) ==
  Compare("gte", v1, v2, v1.intval >= v2.intval,
          FloatGe(v1.floatval, v2.floatval), ~StrLt(v1.strval, v2.strval))
M_lt(v1, v2) ==
  Compare("lt", v1, v2, v1.intval < v2.intval,
          FloatLt(v1.floatval, v2.floatval), StrLt(v1.strval, v2.strval))
M_lte(v1, v2) ==
  Compare("lte", v1, v2, v1.intval <= v2.intval,
          FloatLe(v1.floatval, v2.floatval), ~StrLt(v2.strval, v1.strval))

M_contains(v1, v2) ==
  IF v1.type = V_TYPE_STRING THEN Verdict(Find(v1.strval, v2.strval))
  ELSE Unsupported("contains", v1.type)

\* the test of one array element in the loop of "in"
SameElement(v1, v) ==
  /\ v1.type = v.type
  /\ CASE v1.type = V_TYPE_INT -> v1.intval = v.intval
        [] v1.type = V_TYPE_FLOAT -> FloatEq(v1.floatval, v.floatval)
        [] v1.type = V_TYPE_STRING -> v1.strval = v.strval
        [] OTHER -> FALSE

M_in(v1, v2) ==
  IF v2.type = V_TYPE_STRING THEN Verdict(Find(v2.strval, v1.strval))
  ELSE IF v2.type = V_TYPE_ARRAY
  THEN Verdict(\E i \in 1..Len(v2.array) : SameElement(v1, v2.array[i]))
  ELSE Unsupported("in", v2.type)

\* a MethodOperator is held by the name of the lambda it points to
BuiltinNames ==
  << <<"e","q">>, <<"n","e","q">>, <<"g","t">>, <<"g","t","e">>, <<"l","t">>,
     <<"l","t","e">>, <<"c","o","n","t","a","i","n","s">>, <<"i","n">> >>

\* (*pMethod)(v1, v2, evalResult)
Invoke(method, v1, v2) ==
  CASE method = BuiltinNames[1] -> M_eq(v1, v2)
    [] method = BuiltinNames[2] -> M_neq(v1, v2)
    [] method = BuiltinNames[3] -> M_gt(v1, v2)
    [] method = BuiltinNames[4] -> M_gte(v1, v2)
    [] method = BuiltinNames[5] -> M_lt(v1, v2)
    [] method = BuiltinNames[6] -> M_lte(v1, v2)
    [] method = BuiltinNames[7] -> M_contains(v1, v2)
    [] method = BuiltinNames[8] -> M_in(v1, v2)

\* initMethods: the eight setMethod calls, in order
RECURSIVE SetMethodsFrom(_, _)
SetMethodsFrom(tbl, i) ==
  IF i > Len(BuiltinNames) THEN tbl
  ELSE SetMethodsFrom(TableSet(tbl, BuiltinNames[i], BuiltinNames[i]), i + 1)

initMethods(tbl) == SetMethodsFrom(tbl, 1)

(***************************************************************************)
(* The parser/evaluator.  Each operator returns what the function returns  *)
(* (ok) and the ParseState as the call leaves it (ps).                      *)
(***************************************************************************)
\* ParseState ps { expr }: the other members are value-initialised
ParseState0 == [next |-> 1, token |-> Token0, result |-> FALSE, error |-> << >>]

Fail(ps, msg) == [ok |-> FALSE, ps |-> [ps EXCEPT !.error = msg]]

\* ps.next = _nextToken(ps.next, ps.token): nt is what the call returns
Moved(ps, nt) == [ps EXCEPT !.next = nt.next, !.token = nt.token]
Advance(e, ps) == Moved(ps, NextToken(e, ps.next, ps.token))

\* _peekToken(ps.next, ps.token): ps.token is overwritten, ps.next is not
Peeked(ps, nt) == [some |-> nt.next # NULL, ps |-> [ps EXCEPT !.token = nt.token]]
Peek(e, ps) == Peeked(ps, NextToken(e, ps.next, ps.token))

\* the character an escape sequence stands for; any other character leaves
\* the backslash in place (default: break)
EscapeChar(c) ==
  CASE c = "n" -> "\n"
    [] c = "r" -> "\r"
    [] c = "t" -> "\t"
    [] c = "0" -> NUL
    [] c = "\\" -> "\\"
    [] c = "'" -> "'"
    [] c = "\"" -> "\""
    [] OTHER -> "\\"

\* the unescaping loop of _parseValue; the loop index advances by one in
\* every iteration, also after a backslash
RECURSIVE Unescape(_, _)
Unescape(str, i) ==
  IF i > Len(str) THEN << >>
  ELSE IF str[i] = "\\"
  THEN IF i + 1 <= Len(str)
       THEN << EscapeChar(str[i + 1]) >> \o Unescape(str, i + 1)
       ELSE Unescape(str, i + 1)
  ELSE << str[i] >> \o Unescape(str, i + 1)

\* std::to_string of an int and of a float ("%f": six decimals)
RECURSIVE Digits(_)
Digits(n) ==
  IF n < 10 THEN << Printable[17 + n] >>
  ELSE Append(Digits(n \div 10), Printable[17 + (n % 10)])

RECURSIVE Pad(_, _)
Pad(str, width) == IF Len(str) >= width THEN str ELSE Pad(<< "0" >> \o str, width)

IntToString(n) == IF n < 0 THEN << "-" >> \o Digits(0 - n) ELSE Digits(n)
FloatToString(f) ==
  IF f.nan THEN << "n", "a", "n" >>
  ELSE LET a == IF f.num < 0 THEN 0 - f.num ELSE f.num
       IN (IF f.num < 0 THEN << "-" >> ELSE << >>)
          \o Digits(a \div FloatScale) \o << "." >>
          \o Pad(Digits((a % FloatScale) * (Pow10(6) \div FloatScale)), 6)

\* _stringifyToken
_stringifyToken(t) ==
  CASE t.type = TK_EOF -> << "EOF" >>
    [] t.type \in {TK_RAW_STRING, TK_RAW_STRING_NO_ESCAPE} ->
         << "string '" >> \o t.value \o << "'" >>
    [] t.type = TK_UNTERMINATED_STRING ->
         << "unterminated string (" >> \o t.value \o << ")" >>
    [] t.type = TK_INT -> IntToString(t.intval)
    [] t.type = TK_FLOAT -> FloatToString(t.floatval)
    [] OTHER -> << "'", t.type, "'" >>

VariableNotFound(name) == << "variable '" >> \o name \o << "' not found" >>

RECURSIVE _parseValue(_, _)
RECURSIVE ArrayLoop(_, _, _)

\* the value a failed _parseValue leaves: it is not read
NoValue == IntValue(0)

\* the end of the loop body: ps is the state behind the token that follows
\* the element
ArrayNext(e, ps, array) ==
  IF ps.token.type = TK_RBRACE THEN [ok |-> TRUE, ps |-> ps, array |-> array]
  ELSE IF ps.token.type # TK_COMMA
  THEN [ok |-> FALSE, ps |-> [ps EXCEPT !.error = << "expecting ','" >>], array |-> array]
  ELSE ArrayLoop(e, ps, array)

\* the loop body behind _parseValue(ps, vtmp), which returned r
ArrayElement(e, r, array) ==
  IF ~r.ok THEN [ok |-> FALSE, ps |-> r.ps, array |-> array]
  ELSE ArrayNext(e, Advance(e, r.ps), Append(array, r.v))

\* the while loop of case TK_LBRACE; ps.token is the token last read
ArrayLoop(e, ps, array) ==
  IF ps.token.type = TK_RBRACE THEN [ok |-> TRUE, ps |-> ps, array |-> array]
  ELSE ArrayElement(e, _parseValue(e, ps), array)

\* case TK_LBRACE behind the loop, which left lp
ArrayEnd(lp) ==
  IF ~lp.ok THEN [ok |-> FALSE, ps |-> lp.ps, v |-> NoValue]
  ELSE IF lp.ps.token.type # TK_RBRACE
  THEN Fail(lp.ps, << "expecting ']'" >>) @@ [v |-> NoValue]
  ELSE [ok |-> TRUE, ps |-> lp.ps, v |-> ArrayValue(lp.array)]

\* case TK_ID behind _variables.get(ps.token.value), which returned pVar
VariableValue(ps, pVar) ==
  IF pVar = << >>
  THEN Fail(ps, VariableNotFound(ps.token.value)) @@ [v |-> NoValue]
  ELSE [ok |-> TRUE, ps |-> ps, v |-> pVar[1]]

\* the switch of _parseValue on the token read
ValueSwitch(e, ps) ==
  CASE ps.token.type = TK_INT -> [ok |-> TRUE, ps |-> ps, v |-> IntValue(ps.token.intval)]
    [] ps.token.type = TK_FLOAT ->
         [ok |-> TRUE, ps |-> ps, v |-> FloatValue(ps.token.floatval)]
    [] ps.token.type = TK_RAW_STRING_NO_ESCAPE ->
         [ok |-> TRUE, ps |-> ps, v |-> StringValue(ps.token.value)]
    [] ps.token.type = TK_RAW_STRING ->
         [ok |-> TRUE, ps |-> ps, v |-> StringValue(Unescape(ps.token.value, 1))]
    [] ps.token.type = TK_UNTERMINATED_STRING ->
         Fail(ps, << "unterminated string" >>) @@ [v |-> NoValue]
    [] ps.token.type = TK_ID ->
         VariableValue(ps, TableGet(_variables, ps.token.value))
    [] ps.token.type = TK_LBRACE ->
         ArrayEnd(ArrayLoop(e, Peek(e, ps).ps, << >>))
    [] OTHER ->
         Fail(ps, << "expecting value, got " >> \o _stringifyToken(ps.token))
           @@ [v |-> NoValue]

_parseValue(e, ps0) == ValueSwitch(e, Advance(e, ps0))

\* _evalStatement behind the call of the method, which left evalResult
MethodResult(ps, evalResult) ==
  IF ~evalResult.ok THEN Fail(ps, evalResult.error)
  ELSE [ok |-> TRUE, ps |-> [ps EXCEPT !.result = evalResult.result]]

\* _evalStatement behind _methods.get(method), which returned pMethod
MethodCall(ps, v1, method, v2, pMethod) ==
  IF pMethod = << >>
  THEN Fail(ps, << "unknown method '" >> \o method \o << "'" >>)
  ELSE MethodResult(ps, Invoke(pMethod[1], v1, v2))

\* _evalStatement
_evalStatement(ps, v1, method, v2) ==
  MethodCall(ps, v1, method, v2, TableGet(_methods, method))

RECURSIVE _parseStatement(_, _)

\* the statement with the method looked up before the receiver
StatementEvalMethodFirst(ps, id, method, value, pVar) ==
  IF TableGet(_methods, method) = << >>
  THEN Fail(ps, << "unknown method '" >> \o method \o << "'" >>)
  ELSE IF pVar = << >> THEN Fail(ps, VariableNotFound(id))
  ELSE _evalStatement(ps, pVar[1], method, value)

\* _parseStatement behind _variables.get(id), which returned pVar
StatementEval(ps, id, method, value, pVar) ==
  IF pVar = << >> THEN Fail(ps, VariableNotFound(id))
  ELSE _evalStatement(ps, pVar[1], method, value)

\* then a ')': ps is the state behind the token that follows the value
StatementRpar(ps, id, method, value) ==
  IF ps.token.type # TK_RPAR THEN Fail(ps, << "expecting ')'" >>)
  ELSE StatementEval(ps, id, method, value, TableGet(_variables, id))

\* behind _parseValue(ps, value), which returned rv
StatementValue(e, id, method, rv) ==
  IF ~rv.ok THEN [ok |-> FALSE, ps |-> rv.ps]
  ELSE StatementRpar(Advance(e, rv.ps), id, method, rv.v)

\* then a '(' and a value
StatementLpar(e, ps, id, method) ==
  IF ps.token.type # TK_LPAR THEN Fail(ps, << "expecting '('" >>)
  ELSE StatementValue(e, id, method, _parseValue(e, ps))

\* then another identifier
StatementMethod(e, ps, id) ==
  IF ps.token.type # TK_ID THEN Fail(ps, << "expecting identifier" >>)
  ELSE StatementLpar(e, Advance(e, ps), id, ps.token.value)

\* then expecting a dot
StatementDot(e, ps, id) ==
  IF ps.token.type # TK_DOT THEN Fail(ps, << "expecting '.'" >>)
  ELSE StatementMethod(e, Advance(e, ps), id)

\* a 'not' that leaves the result of the statement as it is
NegatedNothing(r) == r

\* the optional 'not': r is what _parseStatement returned for the rest
Negated(r) ==
  IF ~r.ok THEN r ELSE [ok |-> TRUE, ps |-> [r.ps EXCEPT !.result = ~r.ps.result]]

\* _parseStatement behind the first token
StatementAt(e, ps) ==
  IF ps.next = NULL THEN Fail(ps, << "expecting statement" >>)
  ELSE IF ps.token.type = TK_NOT THEN Negated(_parseStatement(e, ps))
  ELSE IF ps.token.type # TK_ID THEN Fail(ps, << "expecting identifier" >>)
  ELSE StatementDot(e, Advance(e, ps), ps.token.value)

_parseStatement(e, ps0) == StatementAt(e, Advance(e, ps0))

RECURSIVE _parseExpr(_, _)

\* ps.result &= result
AndResult(right, left) == right /\ left

\* ps.result |= result written as &=
OrResultAsAnd(right, left) == right /\ left

\* ps.result |= result
OrResult(right, left) == right \/ left

\* case TK_AND behind _parseExpr(ps), which returned r; result is the
\* ps.result saved before the call
AndExpr(r, result) ==
  IF ~r.ok THEN r
  ELSE [ok |-> TRUE, ps |-> [r.ps EXCEPT !.result = AndResult(r.ps.result, result)]]

\* case TK_OR behind _parseExpr(ps)
OrExpr(r, result) ==
  IF ~r.ok THEN r
  ELSE [ok |-> TRUE, ps |-> [r.ps EXCEPT !.result = OrResult(r.ps.result, result)]]

\* the switch with short-circuit: the right side is not parsed when the left
\* side decides the result
ExprSwitchShortCircuit(e, ps) ==
  CASE ps.token.type = TK_AND ->
         IF ~ps.result THEN [ok |-> TRUE, ps |-> Advance(e, ps)]
         ELSE AndExpr(_parseExpr(e, Advance(e, ps)), ps.result)
    [] ps.token.type = TK_OR ->
         IF ps.result THEN [ok |-> TRUE, ps |-> Advance(e, ps)]
         ELSE OrExpr(_parseExpr(e, Advance(e, ps)), ps.result)
    [] OTHER -> [ok |-> TRUE, ps |-> ps]

\* the switch at the end of _parseExpr on the token peeked
ExprSwitch(e, ps) ==
  CASE ps.token.type = TK_AND -> AndExpr(_parseExpr(e, Advance(e, ps)), ps.result)
    [] ps.token.type = TK_OR -> OrExpr(_parseExpr(e, Advance(e, ps)), ps.result)
    [] OTHER -> [ok |-> TRUE, ps |-> ps]

\* the end of _parseExpr: ps0 is the state after the statement or the
\* parenthesised expression
ExprTail(e, ps0) == ExprSwitch(e, Peek(e, ps0).ps)

\* then RPAR: ps is the state behind the token that follows the expression
ExprRpar(e, ps) ==
  IF ps.token.type # TK_RPAR THEN Fail(ps, << "expecting ')'" >>)
  ELSE ExprTail(e, ps)

\* behind the _parseExpr(ps) of a parenthesised expression, which returned r
ExprInner(e, r) == IF ~r.ok THEN r ELSE ExprRpar(e, Advance(e, r.ps))

\* behind _parseStatement(ps), which returned r
ExprStatement(e, r) == IF ~r.ok THEN r ELSE ExprTail(e, r.ps)

\* _parseExpr behind the first _peekToken, which returned pk
ExprAt(e, pk) ==
  IF ~pk.some THEN Fail(pk.ps, << "expecting expression" >>)
  ELSE IF pk.ps.token.type = TK_LPAR
  THEN ExprInner(e, _parseExpr(e, Advance(e, pk.ps)))
  ELSE ExprStatement(e, _parseStatement(e, pk.ps))

_parseExpr(e, ps0) == ExprAt(e, Peek(e, ps0))

(***************************************************************************)
(* The recursion of the parser: the number of frames of _parseExpr and     *)
(* _parseStatement that are on the call stack at once while the call runs, *)
(* the frame of the call included.                                         *)
(***************************************************************************)
RECURSIVE StatementDepth(_, _)
RECURSIVE ExprDepth(_, _)

Max(x, y) == IF x >= y THEN x ELSE y

\* _parseStatement behind the first token: on '!' it calls itself
StatementDepthAt(e, ps) ==
  IF ps.next # NULL /\ ps.token.type = TK_NOT THEN 1 + StatementDepth(e, ps) ELSE 1

StatementDepth(e, ps0) == StatementDepthAt(e, Advance(e, ps0))

\* the chain continued in the frame of the caller, as a loop would
ExprDepthTailLoop(e, d, ps) ==
  IF ps.token.type \in {TK_AND, TK_OR}
  THEN Max(d, ExprDepth(e, Advance(e, ps)))
  ELSE d

\* the switch at the end of _parseExpr: case TK_AND and case TK_OR call
\* _parseExpr for the rest; d is the depth reached before
ExprDepthTail(e, d, ps) ==
  IF ps.token.type \in {TK_AND, TK_OR}
  THEN Max(d, 1 + ExprDepth(e, Advance(e, ps)))
  ELSE d

ExprDepthRpar(e, d, ps) ==
  IF ps.token.type # TK_RPAR THEN d ELSE ExprDepthTail(e, d, Peek(e, ps).ps)

\* behind the _parseExpr(ps) of a parenthesised expression, which returned r
ExprDepthInner(e, d, r) == IF ~r.ok THEN d ELSE ExprDepthRpar(e, d, Advance(e, r.ps))

\* behind _parseStatement(ps), which returned r
ExprDepthStatement(e, d, r) ==
  IF ~r.ok THEN d ELSE ExprDepthTail(e, d, Peek(e, r.ps).ps)

ExprDepthAt(e, pk) ==
  IF ~pk.some THEN 1
  ELSE IF pk.ps.token.type = TK_LPAR
  THEN ExprDepthInner(e, 1 + ExprDepth(e, Advance(e, pk.ps)),
                      _parseExpr(e, Advance(e, pk.ps)))
  ELSE ExprDepthStatement(e, 1 + StatementDepth(e, pk.ps), _parseStatement(e, pk.ps))

ExprDepth(e, ps0) == ExprDepthAt(e, Peek(e, ps0))

\* eval behind _parseExpr(ps) and the _peekToken that follows it, which
\* returned pk.  er.result is not assigned on the "unexpected token" path:
\* the EvalResult then carries an indeterminate bool.
EvalEnd(ps, pk) ==
  IF ps.error = << >> /\ pk.some
  THEN [result |-> FALSE, indeterminate |-> TRUE,
        error |-> << "unexpected token '" >> \o pk.ps.token.value \o << "'" >>]
  ELSE [result |-> ps.result, indeterminate |-> FALSE, error |-> ps.error]

\* eval behind _parseExpr(ps) without the check that everything was consumed
EvalParsedNoEndCheck(e, ps) ==
  [result |-> ps.result, indeterminate |-> FALSE, error |-> ps.error]

\* eval behind _parseExpr(ps)
EvalParsed(e, ps) == EvalEnd(ps, Peek(e, ps))

\* eval(expr)
eval(e) == EvalParsed(e, _parseExpr(e, ParseState0).ps)

\* the EvalResults a call of eval(e) can return
EvalResults(e) ==
  LET r == eval(e)
  IN {[result |-> b, error |-> r.error] :
        b \in IF r.indeterminate THEN BOOLEAN ELSE {r.result}}

(***************************************************************************)
(* The host operations                                                     *)
(***************************************************************************)
EvalResult0 == [result |-> FALSE, error |-> << >>]

\* the EvalResult a call returns, b standing for an indeterminate bool
Resolve(r, b) ==
  [result |-> IF r.indeterminate THEN b ELSE r.result, error |-> r.error]

\* the bools an EvalResult can carry
Bools(r) == IF r.indeterminate THEN BOOLEAN ELSE {r.result}

\* the state after the constructor TinyRuleChecker(true)
Constructed ==
  /\ _variables = TableClear(EmptyTable)
  /\ _methods = initMethods(TableClear(EmptyTable))
  /\ expr = << >>
  /\ er = EvalResult0
  /\ pc = "host"
  /\ ref = << >>
  /\ verdict = << >>
  /\ parts = << >>

\* _variables.set(name, v) of setVarInt, setVarFloat and setVarString
SetVar(name, v) ==
  /\ pc = "host"
  /\ parts = << >>
  /\ _variables' = TableSet(_variables, name, v)
  /\ ref' = (name :> v) @@ ref
  /\ verdict' = << >>
  /\ UNCHANGED <<_methods, expr, garbage, er, pc, parts>>

setVarInt(name, value) == SetVar(name, IntValue(value))
setVarFloat(name, value) == SetVar(name, FloatValue(value))
setVarString(name, value) == SetVar(name, StringValue(value))

clearVars ==
  /\ pc = "host"
  /\ parts = << >>
  /\ _variables.values # << >>
  /\ _variables' = TableClear(_variables)
  /\ ref' = << >>
  /\ verdict' = << >>
  /\ UNCHANGED <<_methods, expr, garbage, er, pc, parts>>

\* the host writes the next piece of the expression text
AppendPiece(piece) ==
  /\ pc = "host"
  /\ expr' = expr \o piece
  /\ parts' = Append(parts, piece)
  /\ UNCHANGED <<_variables, _methods, garbage, er, pc, ref, verdict>>

\* a get() that enters a name it does not find, as operator[] of a map does
AfterGetInserting(tbl) == TableSet(tbl, << "j" >>, IntValue(1))

\* the table as the calls of get() leave it.  eval reaches _variables and
\* _methods through get() only, a const member function that reads _lookup,
\* _lookupNames, _lookupMap and _values and returns a pointer to const.
AfterGet(tbl) == tbl

\* er = eval(expr)
EvalExpr ==
  /\ pc = "host"
  /\ \E r \in {eval(expr)} : \E b \in Bools(r) : er' = Resolve(r, b)
  /\ pc' = "done"
  /\ _variables' = AfterGet(_variables)
  /\ _methods' = AfterGet(_methods)
  /\ UNCHANGED <<expr, garbage, ref, verdict, parts>>

\* the host keeps the outcome and starts to write another expression
Again ==
  /\ pc = "done"
  /\ verdict' = Append(verdict, [expr |-> expr, er |-> er])
  /\ pc' = "host"
  /\ expr' = << >>
  /\ parts' = << >>
  /\ UNCHANGED <<_variables, _methods, garbage, er, ref>>

(***************************************************************************)
(* SpecLookup: the host sets and clears variables; three of the four names *)
(* hash to the same slot of the table.                                     *)
(***************************************************************************)
MaxSets == 3

LookupKeys == { << "a" >>, << "a", "h" >>, << "b", "8" >>, << "f", "q" >> }

SetsLeft == Len(_variables.values) < MaxSets

InitLookup == Constructed /\ garbage = << >>

NextLookup ==
  \/ \E k \in LookupKeys : SetsLeft /\ setVarInt(k, 1)
  \/ \E k \in LookupKeys : SetsLeft /\ setVarFloat(k, Fixed(FloatScale))
  \/ \E k \in LookupKeys : SetsLeft /\ setVarString(k, << "x" >>)
  \/ clearVars

SpecLookup == InitLookup /\ [][NextLookup]_vars

\* C10: the variable table is an exact map: get(k) returns the value most
\* recently set for k since the last clear, and NULL for every name not set
\* since the last clear, whatever the state of the slot k hashes to.
C10_ExactMap ==
  \A k \in LookupKeys :
     TableGet(_variables, k) = IF k \in DOMAIN ref THEN << ref[k] >> ELSE << >>

\* two names share a slot marked as overflow, one of them was overwritten
\* with a value of another type, and a third name of that slot is not set
C10_Witness ==
  /\ SlotOf(_variables, QKey(<< "a", "h" >>)) = LookupSize
  /\ QKey(<< "b", "8" >>) = QKey(<< "a", "h" >>)
  /\ QKey(<< "f", "q" >>) = QKey(<< "a", "h" >>)
  /\ DOMAIN ref = { << "a", "h" >>, << "b", "8" >> }
  /\ Len(_variables.values) = 3
  /\ _variables.values[1].type # ref[<< "a", "h" >>].type
  /\ _variables.lookupMap[<< "a", "h" >>] = 2

(***************************************************************************)
(* SpecMethods: the host binds the receiver v and the variable w, then     *)
(* evaluates v.m(argument) for each built-in method m, and w.contains(v).  *)
(*                                                                         *)
(* An argument is written from its parts and carries, next to its text,    *)
(* the value the text writes (val), from which the claims are stated.      *)
(***************************************************************************)
MaxBindings == 2

Signs == { << >>, << "-" >>, << "+" >> }
NoFraction == [text |-> << >>, num |-> 0, den |-> 1]
OneHalf == [text |-> << "5" >>, num |-> 1, den |-> 2]

IntLit(sign, n) ==
  [text |-> sign \o Digits(n), kind |-> "lit", elems |-> << >>,
   val |-> IntValue(IF sign = << "-" >> THEN 0 - n ELSE n)]

FloatLit(sign, n, frac) ==
  [text |-> sign \o Digits(n) \o << "." >> \o frac.text, kind |-> "lit", elems |-> << >>,
   val |-> FloatValue(Fixed((IF sign = << "-" >> THEN 0 - 1 ELSE 1)
                            * (n * FloatScale + (frac.num * FloatScale) \div frac.den)))]

StrLit(quote, content) ==
  [text |-> << quote >> \o content \o << quote >>, kind |-> "lit", elems |-> << >>,
   val |-> StringValue(content)]

IdArg(name) ==
  [text |-> name, kind |-> "id", elems |-> << >>, val |-> IntValue(0)]

ArrayLit2(a, b) ==
  [text |-> << "[" >> \o a.text \o << "," >> \o b.text \o << "]" >>,
   kind |-> "array", elems |-> << a, b >>, val |-> IntValue(0)]

V == << "v" >>
W == << "w" >>

MethodArgs ==
  {IntLit(sg, 1) : sg \in Signs}
  \cup {FloatLit(sg, n, fr) : sg \in {<< >>, << "-" >>}, n \in {0, 1},
                               fr \in {NoFraction, OneHalf}}
  \cup {StrLit("'", << "a" >>), StrLit("\"", << "a", "b" >>), StrLit("'", << >>)}
  \cup {IdArg(W)}
  \cup {ArrayLit2(IntLit(<< >>, 1), StrLit("'", << "a" >>)),
        ArrayLit2(IdArg(W), FloatLit(<< >>, 1, NoFraction)),
        ArrayLit2(FloatLit(<< "-" >>, 1, OneHalf), FloatLit(<< >>, 1, OneHalf))}

MethodSet == {BuiltinNames[i] : i \in 1..Len(BuiltinNames)}
N_eq == BuiltinNames[1]
N_neq == BuiltinNames[2]
N_gt == BuiltinNames[3]
N_gte == BuiltinNames[4]
N_lt == BuiltinNames[5]
N_lte == BuiltinNames[6]
N_contains == BuiltinNames[7]
N_in == BuiltinNames[8]
Comparisons == {N_eq, N_neq, N_gt, N_gte, N_lt, N_lte}

\* the text  receiver.method(argument)
Statement(receiver, method, argument) ==
  receiver \o << "." >> \o method \o << "(" >> \o argument \o << ")" >>

\* the host evaluates the nine statements one after the other
EvalMethods(arg) ==
  /\ pc = "host"
  /\ verdict = << >>
  /\ \E rs \in {[m \in MethodSet |-> eval(Statement(V, m, arg.text))]},
        rc \in {eval(Statement(W, N_contains, V))} :
       \E b \in UNION ({Bools(rs[m]) : m \in MethodSet} \cup {Bools(rc)}) :
          /\ verdict' = [arg |-> arg,
                         res |-> [m \in MethodSet |-> Resolve(rs[m], b)],
                         conv |-> Resolve(rc, b)]
          /\ er' = Resolve(rc, b)
  /\ expr' = Statement(W, N_contains, V)
  /\ pc' = "done"
  /\ UNCHANGED <<_variables, _methods, garbage, ref, parts>>

\* 1.5 in fixed point
OneAndHalf == (3 * FloatScale) \div 2

BindingsLeft == Len(_variables.values) < MaxBindings

InitMethods == Constructed /\ garbage = << >>

NextMethods ==
  \/ \E k \in {V, W}, n \in {1, 0 - 1} : BindingsLeft /\ setVarInt(k, n)
  \/ \E k \in {V, W}, f \in {Fixed(OneAndHalf), Fixed(0 - OneAndHalf), NaN} :
        BindingsLeft /\ setVarFloat(k, f)
  \/ \E k \in {V, W}, str \in {<< "a" >>, << "a", "b" >>} : BindingsLeft /\ setVarString(k, str)
  \/ \E arg \in MethodArgs : EvalMethods(arg)

SpecMethods == InitMethods /\ [][NextMethods]_vars

\* what the claims speak of: the statements were evaluated with the receiver
\* and every identifier of the argument bound
Bound(name) == name \in DOMAIN ref
ArgBound(arg) ==
  /\ arg.kind = "id" => Bound(arg.text)
  /\ \A i \in 1..Len(arg.elems) : arg.elems[i].kind = "id" => Bound(arg.elems[i].text)
Evaluated == verdict # << >> /\ Bound(V) /\ ArgBound(verdict.arg)

\* the value an argument writes
ElemVal(a) == IF a.kind = "id" THEN ref[a.text] ELSE a.val
ArgVal(arg) ==
  IF arg.kind = "array" THEN ArrayValue([i \in 1..Len(arg.elems) |-> ElemVal(arg.elems[i])])
  ELSE ElemVal(arg)

Scalars == {V_TYPE_INT, V_TYPE_FLOAT, V_TYPE_STRING}

\* the natural equality of two values of the same scalar type
NaturalEq(a, b) ==
  /\ a.type = b.type
  /\ CASE a.type = V_TYPE_INT -> a.intval = b.intval
        [] a.type = V_TYPE_FLOAT ->
             ~a.floatval.nan /\ ~b.floatval.nan /\ a.floatval.num = b.floatval.num
        [] a.type = V_TYPE_STRING -> a.strval = b.strval
        [] OTHER -> FALSE

\* sub occurs in str as a contiguous run of characters
IsSubstring(sub, str) ==
  \E i \in 1..(Len(str) + 1), j \in 0..Len(str) : SubSeq(str, i, j) = sub

True(r) == r.error = << >> /\ r.result
False(r) == r.error = << >> /\ ~r.result
Is(r, b) == r.error = << >> /\ r.result = b

ArgType(arg) == ArgVal(arg).type
IsNaN(v) == v.type = V_TYPE_FLOAT /\ v.floatval.nan

\* C5: for a variable v of type Int, Float or String and a literal x of the
\* same type, v.eq(x) returns no error and the result is true exactly when
\* the stored value equals the value the literal writes (signs included).
C5_EqLiteral ==
  (Evaluated /\ verdict.arg.kind = "lit" /\ verdict.arg.val.type = ref[V].type)
    => Is(verdict.res[N_eq], NaturalEq(ref[V], verdict.arg.val))

\* the six comparison verdicts agree with one another
ConsistentVerdicts(res) ==
  /\ \A m \in Comparisons : res[m].error = << >>
  /\ Cardinality({m \in {N_lt, N_eq, N_gt} : res[m].result}) = 1
  /\ res[N_neq].result = ~res[N_eq].result
  /\ res[N_gte].result = ~res[N_lt].result
  /\ res[N_lte].result = ~res[N_gt].result

SameOrderedType ==
  /\ Evaluated
  /\ ref[V].type \in Scalars
  /\ ArgType(verdict.arg) = ref[V].type

\* C6 as stated: for every variable v and argument x of the same ordered
\* type, exactly one of v.lt(x), v.eq(x), v.gt(x) is true, neq is the negation
\* of eq, gte the negation of lt and lte the negation of gt.
C6_Consistent == SameOrderedType => ConsistentVerdicts(verdict.res)

\* C6 as amended: the same, for operands that are not the Float NaN.
C6_ConsistentNoNaN ==
  (SameOrderedType /\ ~IsNaN(ref[V]) /\ ~IsNaN(ArgVal(verdict.arg)))
    => ConsistentVerdicts(verdict.res)

\* Float receiver and an identifier argument bound to the same number
C6_Witness ==
  /\ SameOrderedType
  /\ verdict.arg.kind = "id"
  /\ ref[V] = FloatValue(Fixed(OneAndHalf))
  /\ ref[W] = ref[V]
  /\ True(verdict.res[N_gte]) /\ False(verdict.res[N_lt])

\* C7: when the type of the receiver differs from the type of the argument
\* (a literal or a bound identifier), each of eq, neq, gt, gte, lt, lte fails
\* with "type mismatch: type <A> vs <B>", A the tag of the receiver and B the
\* tag of the argument; an Int and a Float of the same number do not match.
\* (The tag of an Array argument is not one of i, f, s; the message then
\* states the tag of the receiver and some tag of the argument.)
C7_TypeMismatch ==
  (Evaluated /\ ArgType(verdict.arg) # ref[V].type)
    => \A m \in Comparisons :
          LET msg == verdict.res[m].error
          IN /\ Len(msg) = 4
             /\ SubSeq(msg, 1, 3) = << "type mismatch: type ", ref[V].type, " vs " >>
             /\ ArgType(verdict.arg) \in Scalars => msg[4] = ArgType(verdict.arg)
             /\ msg[4] # ref[V].type

\* an Int receiver compared with an identifier bound to a Float
C7_Witness ==
  /\ Evaluated
  /\ verdict.arg.kind = "id"
  /\ ref[V].type = V_TYPE_INT
  /\ ref[W].type = V_TYPE_FLOAT
  /\ verdict.res[N_lte].error # << >>

\* C8: for a String variable s, s.contains(x) returns true exactly when x is
\* a String that occurs in s as a contiguous substring (never for an x that
\* is not a String); for a receiver that is not a String the call fails with
\* "unsupported operation 'contains' with type '<t>'".
C8_Contains ==
  Evaluated =>
    IF ref[V].type = V_TYPE_STRING
    THEN True(verdict.res[N_contains])
           <=> (/\ ArgType(verdict.arg) = V_TYPE_STRING
                /\ IsSubstring(ArgVal(verdict.arg).strval, ref[V].strval))
    ELSE verdict.res[N_contains].error =
           << "unsupported operation '", "contains", "' with type '", ref[V].type, "'" >>

\* C9: x.in(s) for a String s returns the verdict of s.contains(x), x a
\* substring of s; x.in(arr) is true exactly when an element of arr has the
\* type of x and an equal value; x.in(n) for an Int or Float n fails with
\* "unsupported operation 'in' with type '<t>'".
C9_In ==
  Evaluated =>
    LET arg == verdict.arg
        r == verdict.res[N_in]
    IN /\ (ArgType(arg) = V_TYPE_STRING /\ arg.kind = "id") => r = verdict.conv
       /\ (ArgType(arg) = V_TYPE_STRING /\ ref[V].type = V_TYPE_STRING)
            => Is(r, IsSubstring(ref[V].strval, ArgVal(arg).strval))
       /\ arg.kind = "array"
            => Is(r, \E i \in 1..Len(arg.elems) : NaturalEq(ref[V], ArgVal(arg).array[i]))
       /\ ArgType(arg) \in {V_TYPE_INT, V_TYPE_FLOAT}
            => r.error = << "unsupported operation '", "in", "' with type '", ArgType(arg), "'" >>

(***************************************************************************)
(* SpecChain: the host binds a = 1, writes a chain                         *)
(*     piece op piece op ... piece                                         *)
(* of statements (well formed or not) joined by && and ||, and evaluates.  *)
(***************************************************************************)
MaxChain == 3

And2 == << "&", "&" >>
Or2 == << "|", "|" >>
And == << " ", "&", "&", " " >>
Or == << " ", "|", "|", " " >>

GoodPieces ==
  { << "a", ".", "e", "q", "(", "1", ")" >>,
    << "a", ".", "e", "q", "(", "2", ")" >>,
    << "!", "a", ".", "e", "q", "(", "1", ")" >>,
    << "(", "a", ".", "e", "q", "(", "2", ")", " ", "|", "|", " ", "a", ".", "e", "q", "(", "1", ")", ")" >> }

BadPieces ==
  { << >>,
    << "a", ".", "e", "q", "(" >>,
    << "b", ".", "e", "q", "(", "1", ")" >>,
    << "a", ".", "e", "q", "(", "1", ".", "5", ")" >>,
    << "a", ".", "z", "z", "(", "1", ")" >>,
    << "a", ".", "e", "q", "(", "1", ")", " ", ")" >> }

\* a piece may be written where the chain has a statement next
StatementNext == Len(parts) % 2 = 0 /\ Len(parts) < 2 * MaxChain - 1
OperatorNext == Len(parts) % 2 = 1 /\ Len(parts) < 2 * MaxChain - 1

InitChain == Constructed /\ garbage = << >>

NextChain ==
  \/ _variables.values = << >> /\ setVarInt(<< "a" >>, 1)
  \/ \E piece \in GoodPieces \cup BadPieces : StatementNext /\ AppendPiece(piece)
  \/ \E op \in {And, Or} : OperatorNext /\ AppendPiece(op)
  \/ EvalExpr

SpecChain == InitChain /\ [][NextChain]_vars

\* a chain was evaluated each piece of which evaluates without error alone
ChainEvaluated ==
  /\ pc = "done"
  /\ Len(parts) % 2 = 1
  /\ Len(parts) >= 3
  /\ \A i \in 1..Len(parts) : i % 2 = 1 => eval(parts[i]).error = << >>

Outcome(i) == eval(parts[i]).result
Combine(op, x, y) == IF op = And THEN x /\ y ELSE x \/ y

\* ((s1 op1 s2) op2 s3) ... up to piece i
RECURSIVE LeftFold(_)
LeftFold(i) ==
  IF i = 1 THEN Outcome(1) ELSE Combine(parts[i - 1], LeftFold(i - 2), Outcome(i))

\* s_i op_i (s_i+1 op_i+1 ( ... )) from piece i on
RECURSIVE RightFold(_)
RightFold(i) ==
  IF i = Len(parts) THEN Outcome(i) ELSE Combine(parts[i + 1], Outcome(i), RightFold(i + 2))

\* C1 as stated: a chain without parentheses is evaluated strictly left to
\* right, s1 op1 s2 op2 s3 as ((s1 op1 s2) op2 s3): a || b && c gives what
\* (a || b) && c gives.
C1_LeftToRight == ChainEvaluated => Is(er, LeftFold(Len(parts)))

\* C1 as amended: the chain groups to the right, s1 op1 s2 op2 s3 as
\* s1 op1 (s2 op2 s3): a || b && c gives what a || (b && c) gives; there is
\* no precedence between && and ||.
C1_RightToLeft == ChainEvaluated => Is(er, RightFold(1))

\* true || x && false was evaluated, and gave true
C1_Witness ==
  /\ ChainEvaluated
  /\ Len(parts) = 5
  /\ parts[2] = Or /\ parts[4] = And
  /\ Outcome(1) /\ ~Outcome(5)
  /\ True(er)

RECURSIVE Flatten(_)
Flatten(ps) == IF ps = << >> THEN << >> ELSE Head(ps) \o Flatten(Tail(ps))

\* the text left of the last operator
LeftSide == Flatten(SubSeq(parts, 1, Len(parts) - 2))
RightSide == parts[Len(parts)]

\* L op R was evaluated, L evaluates without error alone and R does not
RightSideFails ==
  /\ pc = "done"
  /\ Len(parts) % 2 = 1
  /\ Len(parts) >= 3
  /\ eval(LeftSide).error = << >>
  /\ eval(RightSide).error # << >>

\* C2: && and || never short-circuit: when L evaluates without error, R is
\* parsed and evaluated whatever the value of L, and an error of R is what
\* evaluate returns for L && R and for L || R.
C2_NoShortCircuit == RightSideFails => er.error = eval(RightSide).error

\* L is false under &&, R fails
C2_Witness ==
  /\ RightSideFails
  /\ ~eval(LeftSide).result
  /\ parts[Len(parts) - 1] = And
  /\ er.error # << >>

(***************************************************************************)
(* SpecTokens: the host binds a = 1, writes the start of an expression     *)
(* (complete or not), then tokens separated by a space, and evaluates.     *)
(***************************************************************************)
MaxTokens == 2

CompleteStems ==
  { << "a", ".", "e", "q", "(", "1", ")" >>,
    << "(", "a", ".", "e", "q", "(", "1", ")", ")" >>,
    << "a", ".", "i", "n", "(", "[", "1", ",", "2", "]", ")" >>,
    << "a", ".", "e", "q", "(", "1", ")", "|", "|", "a", ".", "e", "q", "(", "2", ")" >> }

PartialStems ==
  { << >>,
    << "(" >>,
    << "a" >>,
    << "a", "." >>,
    << "a", ".", "e", "q" >>,
    << "a", ".", "e", "q", "(" >>,
    << "a", ".", "e", "q", "(", "1" >>,
    << "a", ".", "i", "n", "(", "[", "1" >>,
    << "!" >>,
    << "a", ".", "e", "q", "(", "1", ")", " ", "&", "&" >> }

Tokens ==
  { << ")" >>,
    << "(" >>,
    << "&" >>,
    << "|" >>,
    << "&", "&" >>,
    << "|", "|" >>,
    << "b" >>,
    << "1" >>,
    << "1", ".", "5" >>,
    << "'", "s", "'" >>,
    << "\"", "s", "\"" >>,
    << "'", "u", "n" >>,
    << "." >>,
    << "!" >>,
    << "," >>,
    << "]" >>,
    << "#" >> }

Blank == << " ", "\t" >>
Spaced(tok) == << " " >> \o tok

TokensLeft == Len(parts) >= 1 /\ Len(parts) < 1 + MaxTokens

InitTokens == Constructed /\ garbage = << >>

NextTokens ==
  \/ _variables.values = << >> /\ setVarInt(<< "a" >>, 1)
  \/ \E stem \in CompleteStems \cup PartialStems : parts = << >> /\ AppendPiece(stem)
  \/ \E tok \in Tokens : TokensLeft /\ AppendPiece(Spaced(tok))
  \/ TokensLeft /\ AppendPiece(Blank)
  \/ EvalExpr

SpecTokens == InitTokens /\ [][NextTokens]_vars

\* the pieces written after the stem that are not blank
Written == SelectSeq(Tail(parts), LAMBDA piece : piece # Blank)

\* a complete expression that evaluates without error alone was followed by
\* at least one token that does not continue it
SurplusEvaluated ==
  /\ pc = "done"
  /\ parts # << >>
  /\ parts[1] \in CompleteStems
  /\ eval(parts[1]).error = << >>
  /\ Written # << >>
  /\ Written[1] \notin {Spaced(And2), Spaced(Or2)}

\* the input from the first surplus token on
RECURSIVE StripBlanks(_)
StripBlanks(str) ==
  IF str # << >> /\ Head(str) \in {" ", "\t"} THEN StripBlanks(Tail(str)) ELSE str

Surplus == StripBlanks(SubSeq(expr, Len(parts[1]) + 1, Len(expr)))

\* the characters of str before the first occurrence of c
RECURSIVE UpTo(_, _)
UpTo(str, c) ==
  IF str = << >> \/ Head(str) = c THEN << >> ELSE << Head(str) >> \o UpTo(Tail(str), c)

Quoted == Head(Surplus) \in {"'", "\""}
Content == UpTo(Tail(Surplus), Head(Surplus))

\* the source text of the first surplus token: for a quoted string, the
\* quotes and what they enclose
SurplusText ==
  IF ~Quoted THEN Tail(Written[1])
  ELSE SubSeq(Surplus, 1, IF Len(Content) + 2 <= Len(Surplus) THEN Len(Content) + 2
                          ELSE Len(Surplus))

\* the value of the first surplus token: its source text, and for a quoted
\* string the content behind the opening quote, up to the closing quote or,
\* when there is none, to the end of the input
SurplusValue == IF ~Quoted THEN Tail(Written[1]) ELSE Content

UnexpectedToken(text) == << "unexpected token '" >> \o text \o << "'" >>

\* the whole input was consumed when evaluate returns no error, and blanks
\* behind a complete expression are no surplus
ConsumedOrError ==
  /\ (pc = "done" /\ er.error = << >>)
       => LET end == _parseExpr(expr, ParseState0).ps.next
          IN \A p \in 1..Len(expr) : p >= end => expr[p] \in {" ", "\t", "\n", "\r"}
  /\ (pc = "done" /\ parts # << >> /\ parts[1] \in CompleteStems /\ Written = << >>)
       => er.error = eval(parts[1]).error

\* C3 as stated: the whole input is consumed when evaluate returns no error;
\* a token left after the top-level expression (a dangling parenthesis, a
\* lone & or |, any other token) gives "unexpected token '<tok>'" with the
\* literal text of the first surplus token; blanks alone are no surplus.
C3_SurplusLiteral ==
  /\ ConsumedOrError
  /\ SurplusEvaluated => er.error = UnexpectedToken(SurplusText)

\* C3 as amended: the same, <tok> being the value of the first surplus
\* token: its source text, except that a quoted string is shown without its
\* quotes (its content, up to the end of the input when it is not closed).
C3_SurplusValue ==
  /\ ConsumedOrError
  /\ SurplusEvaluated => er.error = UnexpectedToken(SurplusValue)

\* a lone & behind a complete expression
C3_Witness ==
  /\ SurplusEvaluated
  /\ SurplusText = << "&" >>
  /\ Len(Written) = 2
  /\ er.error = << "unexpected token '", "&", "'" >>

\* the messages of the taxonomy
InTaxonomy(msg) ==
  \/ msg \in { << "expecting expression" >>, << "expecting identifier" >>,
               << "expecting '.'" >>, << "expecting '('" >>, << "expecting value" >>,
               << "expecting ')'" >>, << "unterminated string" >> }
  \/ Head(msg) = "variable '" /\ msg[Len(msg)] = "' not found"
  \/ Head(msg) = "unknown method '" /\ msg[Len(msg)] = "'"
  \/ Head(msg) = "unexpected token '" /\ msg[Len(msg)] = "'"
  \/ Len(msg) = 4 /\ msg[1] = "type mismatch: type " /\ msg[3] = " vs "
  \/ Len(msg) = 5 /\ msg[1] = "unsupported operation '" /\ msg[3] = "' with type '"
       /\ msg[5] = "'"

\* C4: with the built-in methods registered, the error text of a failed
\* evaluate is one of the messages of the taxonomy, whatever the input and
\* the bindings.
C4_Taxonomy == (pc = "done" /\ er.error # << >>) => InTaxonomy(er.error)

(***************************************************************************)
(* SpecFrame: the host binds a, then writes an expression and evaluates    *)
(* it, MaxEvals times.                                                     *)
(***************************************************************************)
MaxEvals == 2

FrameExprs ==
  { << >>,
    << "a", ".", "e", "q", "(", "1", ")" >>,
    << "a", ".", "l", "t", "(", "2", ")" >>,
    << "j", ".", "e", "q", "(", "1", ")" >>,
    << "a", ".", "e", "q", "(", "j", ")" >>,
    << "a", ".", "z", "z", "(", "1", ")" >>,
    << "a", ".", "e", "q", "(", "'", "x", "'", ")" >>,
    << "a", ".", "e", "q", "(", "1", ")", " ", ")" >> }

FrameNames == { << "a" >>, << "j" >>, << "e", "q" >>, << "z", "z" >>, << "i", "n" >> }

InitFrame == Constructed /\ garbage = << >>

NextFrame ==
  \/ \E n \in {1, 2} : verdict = << >> /\ Len(_variables.values) < 2 /\ setVarInt(<< "a" >>, n)
  \/ \E x \in FrameExprs : parts = << >> /\ AppendPiece(x)
  \/ EvalExpr
  \/ Len(verdict) < MaxEvals - 1 /\ Again

SpecFrame == InitFrame /\ [][NextFrame]_vars

\* every name resolves to the value last bound to it, and to nothing when
\* none was bound
VariablesResolve ==
  \A k \in FrameNames :
     TableGet(_variables, k) = IF k \in DOMAIN ref THEN << ref[k] >> ELSE << >>

\* every name resolves to the built-in operator of that name, if any
MethodsResolve ==
  \A k \in FrameNames :
     TableGet(_methods, k)
       = IF \E i \in 1..Len(BuiltinNames) : BuiltinNames[i] = k THEN << k >> ELSE << >>

\* two outcomes are the same: the same error, and the same result when
\* there is no error
SameOutcome(x, y) == x.error = y.error /\ (x.error = << >> => x.result = y.result)

MaxBlanks == 1

Blanks ==
  { << " " >>, << "\t" >>, << "\r" >>, << "\n" >>, << " ", "\t" >>, << "\r", "\n" >> }

SpaceExprs ==
  { << << "a" >>, << "." >>, << "e", "q" >>, << "(" >>, << "1" >>, << ")" >> >>,
    << << "!" >>, << "a" >>, << "." >>, << "i", "n" >>, << "(" >>, << "[" >>, << "2" >>,
       << "," >>, << "'", "x", " ", "y", "'" >>, << "]" >>, << ")" >> >>,
    << << "(" >>, << "s" >>, << "." >>, << "c", "o", "n", "t", "a", "i", "n", "s" >>,
       << "(" >>, << "\"", "b", "\"" >>, << ")" >>, << ")" >>, << "&", "&" >>,
       << "a" >>, << "." >>, << "n", "e", "q" >>, << "(" >>, << "-", "1" >>, << ")" >> >>,
    << << "a" >>, << "." >>, << "l", "t", "e" >>, << "(" >>, << "+", "1" >>, << ")" >> >> }

\* the tokens written so far, and the number of blanks among the pieces
TokensWritten == SelectSeq(parts, LAMBDA piece : piece \notin Blanks)
BlanksWritten == Len(parts) - Len(TokensWritten)

IsPrefix(x, y) == Len(x) <= Len(y) /\ SubSeq(y, 1, Len(x)) = x

InitSpace == Constructed /\ garbage = << >>

NextSpace ==
  \/ _variables.values = << >> /\ setVarInt(<< "a" >>, 1)
  \/ Len(_variables.values) = 1 /\ setVarString(<< "s" >>, << "a", "b" >>)
  \/ \E x \in SpaceExprs : \E i \in 1..Len(x) :
        /\ Len(_variables.values) = 2
        /\ IsPrefix(Append(TokensWritten, x[i]), x)
        /\ AppendPiece(x[i])
  \/ \E blank \in Blanks :
        /\ Len(_variables.values) = 2
        /\ BlanksWritten < MaxBlanks
        /\ AppendPiece(blank)
  \/ TokensWritten \in SpaceExprs /\ EvalExpr

SpecSpace == InitSpace /\ [][NextSpace]_vars

\* C12: for an expression that evaluates without error, blanks (spaces,
\* tabs, carriage returns, newlines) written before the first token, between
\* two tokens or behind the last token leave the result as it is, and there
\* is still no error.
C12_Whitespace ==
  (pc = "done" /\ eval(Flatten(TokensWritten)).error = << >>)
    => /\ er.error = << >>
       /\ er.result = eval(Flatten(TokensWritten)).result

\* a carriage return and a newline behind the opening bracket of an array
C12_Witness ==
  /\ pc = "done"
  /\ \E i \in 1..(Len(parts) - 1) :
        /\ parts[i] = << "[" >>
        /\ parts[i + 1] = << "\r", "\n" >>
  /\ er = [result |-> TRUE, error |-> << >>]

(***************************************************************************)
(* SpecStrings: the host may bind s, writes s.eq( and a string literal:    *)
(* the opening quote, up to MaxContent pieces of content (a character, or  *)
(* a backslash and a character), then either the closing quote and ")",    *)
(* or a last backslash, or nothing more, and evaluates.  The memory behind *)
(* the terminator of the text is zeroed or holds a quote and ")".          *)
(***************************************************************************)
MaxContent == 2

S == << "s" >>
Quotes == { "'", "\"" }
StringStem(q) == << "s", ".", "e", "q", "(", q >>
Close(q) == << q, ")" >>
LoneBackslash == << "\\" >>
Escaped == { << "\\", c >> : c \in { "n", "t", "0", "\\", "'", "\"", "x" } }
Plain(q) == { << c >> : c \in ({ "x", "n" } \cup Quotes) \ { q } }
Garbages == { << >>, << "'", ")" >>, << "\"", ")" >> }

\* the quote that opened the literal, and what was written behind it
Opened == parts # << >>
Quote == parts[1][Len(parts[1])]
Closed == Len(parts) >= 2 /\ parts[Len(parts)] = Close(Quote)
Dangling == Len(parts) >= 2 /\ parts[Len(parts)] = LoneBackslash
ContentPieces ==
  SubSeq(parts, 2, IF Closed \/ Dangling THEN Len(parts) - 1 ELSE Len(parts))

\* the ParseState of _parseStatement before it calls _parseValue
AtArgument(q) == [ParseState0 EXCEPT !.next = Len(StringStem(q)), !.token.type = TK_LPAR]

\* er = eval(expr); the history keeps what _parseValue(ps, value) returned
\* for the argument of the statement
EvalArgument ==
  /\ pc = "host"
  /\ \E r \in {eval(expr)} : \E b \in Bools(r) : er' = Resolve(r, b)
  /\ verdict' = _parseValue(expr, AtArgument(Quote))
  /\ pc' = "done"
  /\ _variables' = AfterGet(_variables)
  /\ _methods' = AfterGet(_methods)
  /\ UNCHANGED <<expr, garbage, ref, parts>>

InitStrings == Constructed /\ garbage \in Garbages

NextStrings ==
  \/ \E str \in { << "\n" >>, << "x" >> } :
        _variables.values = << >> /\ parts = << >> /\ setVarString(S, str)
  \/ \E q \in Quotes : parts = << >> /\ AppendPiece(StringStem(q))
  \/ \E piece \in Escaped \cup Plain("'") \cup Plain("\"") :
        /\ Opened /\ ~Closed /\ ~Dangling
        /\ piece \in Escaped \cup Plain(Quote)
        /\ Len(parts) <= MaxContent
        /\ AppendPiece(piece)
  \/ Opened /\ ~Closed /\ ~Dangling /\ AppendPiece(Close(Quote))
  \/ Opened /\ ~Closed /\ ~Dangling /\ AppendPiece(LoneBackslash)
  \/ Opened /\ EvalArgument

SpecStrings == InitStrings /\ [][NextStrings]_vars

\* the reference unescaping: an escape sequence stands for one character,
\* any other escaped character for itself, every other character is kept
RefChar(c) ==
  CASE c = "n" -> "\n"
    [] c = "r" -> "\r"
    [] c = "t" -> "\t"
    [] c = "0" -> NUL
    [] OTHER -> c

RECURSIVE RefUnescape(_)
RefUnescape(pieces) ==
  IF pieces = << >> THEN << >>
  ELSE << IF Len(Head(pieces)) = 2 THEN RefChar(Head(pieces)[2]) ELSE Head(pieces)[1] >>
       \o RefUnescape(Tail(pieces))

HasEscape == \E i \in 1..Len(ContentPieces) : ContentPieces[i] \in Escaped

\* C13: the value of a quoted string literal with backslash escapes is the
\* reference unescaping of its content: \n \r \t \0 \\ \' \" give one
\* character each, any other escaped character is kept without the
\* backslash, every other character is kept once, in order.
C13_Unescape ==
  (pc = "done" /\ Closed /\ HasEscape)
    => /\ verdict.ok
       /\ verdict.v = StringValue(RefUnescape(ContentPieces))
       /\ S \in DOMAIN ref
            => /\ er.error = << >>
               /\ er.result = (ref[S].strval = RefUnescape(ContentPieces))

\* C14: a statement whose argument is a string literal that is not closed
\* by its delimiter before the end of the input (whatever the content, also
\* content that ends with a backslash or holds the other quote) fails with
\* "unterminated string".
C14_Unterminated ==
  (pc = "done" /\ Opened /\ ~Closed) => er.error = << "unterminated string" >>

(***************************************************************************)
(* SpecStatement: the host may bind a and b, writes one statement piece by *)
(* piece (receiver, ".", method, "(", argument, ")") and evaluates what is *)
(* written so far, so that every prefix of the form is evaluated.  The     *)
(* argument is a literal, an identifier, a lone sign, or a token that does *)
(* not start a value.                                                      *)
(***************************************************************************)
Receivers == { << "a" >>, << "j" >> }
MethodNames == { << "e", "q" >>, << "k" >> }
Literals == { << "1" >>, << "0" >>, << "'", "x", "'" >> }
ArgNames == { << "b" >>, << "z" >> }
LoneSigns == { << "-" >>, << "+" >> }
NonValues == { << ")" >>, << "." >>, << "(" >>, << "&", "&" >>, << "!" >>, << "]" >> }

SlotPieces(k) ==
  CASE k = 1 -> Receivers
    [] k = 2 -> { << "." >> }
    [] k = 3 -> MethodNames
    [] k = 4 -> { << "(" >> }
    [] k = 5 -> Literals \cup ArgNames \cup LoneSigns \cup NonValues
    [] k = 6 -> { << ")" >> }
    [] OTHER -> { }

InitStatement == Constructed /\ garbage = << >>

NextStatement ==
  \/ \E n \in {0, 1} : << "a" >> \notin DOMAIN ref /\ setVarInt(<< "a" >>, n)
  \/ << "b" >> \notin DOMAIN ref /\ setVarInt(<< "b" >>, 1)
  \/ \E piece \in UNION { SlotPieces(k) : k \in 1..6 } :
        piece \in SlotPieces(Len(parts) + 1) /\ AppendPiece(piece)
  \/ parts # << >> /\ EvalExpr

SpecStatement == InitStatement /\ [][NextStatement]_vars

Receiver == parts[1]
Method == parts[3]
Argument == parts[5]
ArgValue ==
  CASE Argument = << "1" >> -> IntValue(1)
    [] Argument = << "0" >> -> IntValue(0)
    [] Argument = << "'", "x", "'" >> -> StringValue(<< "x" >>)
    [] OTHER -> ref[Argument]

\* C15: id.id( followed by a token that does not start a value (the end of
\* the input, ")", "." or another such token) fails with exactly
\* "expecting value", nothing appended.
C15_ExpectingValue ==
  (pc = "done" /\ (Len(parts) = 4 \/ (Len(parts) >= 5 /\ Argument \in NonValues)))
    => er.error = << "expecting value" >>

UnknownMethod(name) == << "unknown method '" >> \o name \o << "'" >>

\* the errors of the checks that follow the syntax of the statement
LaterErrors ==
  { VariableNotFound(Receiver) }
    \cup (IF Len(parts) >= 3 THEN { UnknownMethod(Method) } ELSE { })
    \cup { << "type mismatch: type ", t1, " vs ", t2 >> :
             t1, t2 \in { V_TYPE_INT, V_TYPE_FLOAT, V_TYPE_STRING } }

\* the error of the first check that fails, the checks taken in the order
\* syntax (with the resolution of an argument identifier), receiver, method,
\* type check
FirstFailure ==
  CASE Len(parts) = 1 -> << "expecting '.'" >>
    [] Len(parts) = 2 -> << "expecting identifier" >>
    [] Len(parts) = 3 -> << "expecting '('" >>
    [] Len(parts) >= 5 /\ Argument \in ArgNames /\ Argument \notin DOMAIN ref ->
         VariableNotFound(Argument)
    [] Len(parts) = 5 -> << "expecting ')'" >>
    [] Receiver \notin DOMAIN ref -> VariableNotFound(Receiver)
    [] Method # << "e", "q" >> -> UnknownMethod(Method)
    [] ref[Receiver].type # ArgValue.type ->
         << "type mismatch: type ", ref[Receiver].type, " vs ", ArgValue.type >>
    [] OTHER -> << >>

\* C16: within one statement only the first failure is reported, in the
\* order syntax of the whole form (with the resolution of an identifier
\* used as the argument), receiver lookup, method lookup, type check of
\* the method.  Where the argument is missing or is no value the error is
\* none of the later checks' errors.  (Lone signs as arguments are left
\* to C18.)
C16_Order ==
  (pc = "done" /\ (Len(parts) >= 5 => Argument \notin LoneSigns))
    => IF Len(parts) = 4 \/ (Len(parts) >= 5 /\ Argument \in NonValues)
       THEN er.error # << >> /\ er.error \notin LaterErrors
       ELSE er.error = FirstFailure

\* an unbound receiver with an unknown method and a good argument: the
\* receiver is reported
C16_Witness ==
  /\ pc = "done" /\ Len(parts) = 6
  /\ Receiver = << "j" >> /\ Method = << "k" >> /\ Argument = << "1" >>
  /\ er.error = VariableNotFound(<< "j" >>)

\* C18: a lone sign in value position is not accepted as a value: the
\* evaluation fails.
C18_LoneSign ==
  (pc = "done" /\ Len(parts) >= 5 /\ Argument \in LoneSigns) => er.error # << >>

(***************************************************************************)
(* SpecNot: the host binds a, writes up to MaxNots "!", a first operand (a *)
(* statement, or a parenthesized statement), then nothing or an operator   *)
(* and a second statement, and evaluates.                                  *)
(***************************************************************************)
MaxNots == 3

Bang == << "!" >>
EqTo(k) == << "a", ".", "e", "q", "(", k, ")" >>
InParens == << "(" >> \o EqTo("1") \o << ")" >>
FirstOperands == { EqTo("1"), EqTo("2"), InParens }
SecondOperands == { EqTo("1"), EqTo("2"), Bang \o EqTo("1") }
Operators == { << "&", "&" >>, << "|", "|" >> }

RECURSIVE LeadingNots(_)
LeadingNots(ps) ==
  IF ps # << >> /\ Head(ps) = Bang THEN 1 + LeadingNots(Tail(ps)) ELSE 0

NotCount == LeadingNots(parts)
HasFirst == Len(parts) > NotCount
HasOperator == Len(parts) > NotCount + 1
HasSecond == Len(parts) > NotCount + 2
FirstOperand == parts[NotCount + 1]
Operator == parts[NotCount + 2]
SecondOperand == parts[NotCount + 3]

InitNot == Constructed /\ garbage = << >>

NextNot ==
  \/ \E n \in {1, 2} : ref = << >> /\ setVarInt(<< "a" >>, n)
  \/ ref # << >> /\ ~HasFirst /\ NotCount < MaxNots /\ AppendPiece(Bang)
  \/ \E x \in FirstOperands : ref # << >> /\ ~HasFirst /\ AppendPiece(x)
  \/ \E op \in Operators : HasFirst /\ ~HasOperator /\ AppendPiece(op)
  \/ \E x \in SecondOperands : HasOperator /\ ~HasSecond /\ AppendPiece(x)
  \/ HasFirst /\ (HasOperator => HasSecond) /\ EvalExpr

SpecNot == InitNot /\ [][NextNot]_vars

\* what the statement a.eq(k), with its own "!" if it has one, says of a
Holds(x) ==
  CASE x = EqTo("1") -> ref[<< "a" >>].intval = 1
    [] x = EqTo("2") -> ref[<< "a" >>].intval = 2
    [] x = InParens -> ref[<< "a" >>].intval = 1
    [] x = Bang \o EqTo("1") -> ref[<< "a" >>].intval # 1

\* b inverted n times
RECURSIVE Inverted(_, _)
Inverted(b, n) == IF n = 0 THEN b ELSE Inverted(~b, n - 1)

\* C17: "!" negates the one statement that follows it: !a && b is (not a)
\* and b, !a || b is (not a) or b, n times "!" inverts the result of the
\* statement n times, and "!" directly before "(" is an error.
C17_Not ==
  (pc = "done" /\ HasFirst)
    => IF NotCount > 0 /\ FirstOperand = InParens
       THEN er.error # << >>
       ELSE /\ er.error = << >>
            /\ er.result =
                 (IF ~HasOperator THEN Inverted(Holds(FirstOperand), NotCount)
                  ELSE IF Operator = << "&", "&" >>
                  THEN Inverted(Holds(FirstOperand), NotCount) /\ Holds(SecondOperand)
                  ELSE Inverted(Holds(FirstOperand), NotCount) \/ Holds(SecondOperand))

\* !a.eq(2) && a.eq(1) with a = 1: the "!" made the first statement true and
\* left the second alone
C17_Witness ==
  /\ pc = "done" /\ NotCount = 1 /\ HasSecond
  /\ FirstOperand = EqTo("2") /\ Operator = << "&", "&" >> /\ SecondOperand = EqTo("1")
  /\ er.error = << >> /\ er.result

(***************************************************************************)
(* SpecNumbers: the host writes a numeric literal (a sign or none, 1 to    *)
(* MaxDigits digits, then nothing or a dot and up to FracDigits digits, so *)
(* that the number written is exact in fixed point) and the tokenizer      *)
(* reads it.                                                               *)
(***************************************************************************)
MaxDigits == 2

DigitPieces == { << "0" >>, << "1" >>, << "5" >> }
SignPieces == { << >>, << "-" >>, << "+" >> }
DotPiece == << "." >>

\* parts[1] is the sign; the dot, when written, is the piece at DotAt
DotAt ==
  IF \E i \in 1..Len(parts) : parts[i] = DotPiece
  THEN CHOOSE i \in 1..Len(parts) : parts[i] = DotPiece
  ELSE 0
IntegerPart == SubSeq(parts, 2, IF DotAt = 0 THEN Len(parts) ELSE DotAt - 1)
FractionPart == IF DotAt = 0 THEN << >> ELSE SubSeq(parts, DotAt + 1, Len(parts))

\* t = Token{}; _nextToken(expr, t): the history keeps the pointer returned
\* and the token
ReadToken ==
  /\ pc = "host"
  /\ verdict' = NextToken(expr, 1, Token0)
  /\ pc' = "done"
  /\ UNCHANGED <<_variables, _methods, expr, garbage, er, ref, parts>>

InitNumbers == Constructed /\ garbage = << >>

NextNumbers ==
  \/ \E sign \in SignPieces : parts = << >> /\ AppendPiece(sign)
  \/ \E d \in DigitPieces :
        /\ parts # << >> /\ DotAt = 0 /\ Len(IntegerPart) < MaxDigits
        /\ AppendPiece(d)
  \/ parts # << >> /\ DotAt = 0 /\ IntegerPart # << >> /\ AppendPiece(DotPiece)
  \/ \E d \in DigitPieces :
        DotAt # 0 /\ Len(FractionPart) < FracDigits /\ AppendPiece(d)
  \/ parts # << >> /\ IntegerPart # << >> /\ ReadToken

SpecNumbers == InitNumbers /\ [][NextNumbers]_vars

\* the number a digit string writes
RECURSIVE NumberOf(_)
NumberOf(digits) ==
  IF digits = << >> THEN 0
  ELSE 10 * NumberOf(SubSeq(digits, 1, Len(digits) - 1))
       + (Code[digits[Len(digits)][1]] - Code["0"])

\* the number the literal writes, in units of 1/FloatScale
WrittenFixed ==
  (IF parts[1] = << "-" >> THEN 0 - 1 ELSE 1)
    * (NumberOf(IntegerPart) * FloatScale
       + (NumberOf(FractionPart) * FloatScale) \div Pow10(Len(FractionPart)))

\* C19: the decoded value of a numeric literal is the number it writes,
\* sign included: -D.F decodes to the negation of D.F, D. decodes to D
\* with zero fraction, and a literal without a dot to the integer written.
C19_Decoded ==
  pc = "done"
    => /\ verdict.next = Len(expr) + 1
       /\ IF DotAt = 0
          THEN /\ verdict.token.type = TK_INT
               /\ verdict.token.intval * FloatScale = WrittenFixed
          ELSE /\ verdict.token.type = TK_FLOAT
               /\ verdict.token.floatval = Fixed(WrittenFixed)

(***************************************************************************)
(* SpecDepth: the host binds a, writes a chain of up to MaxOperands        *)
(* operands joined by && and ||, each a statement under zero to two levels *)
(* of parentheses and "!", and evaluates; the history keeps the depth the  *)
(* recursion of _parseExpr and _parseStatement reached.                    *)
(***************************************************************************)
MaxOperands == 3

PlainOperand == EqTo("1")
NestedOperands ==
  { Bang \o EqTo("2"),
    << "(" >> \o EqTo("1") \o << ")" >>,
    << "(", "!" >> \o EqTo("1") \o << ")" >> }

\* the levels of parentheses and "!" an operand opens
RECURSIVE Nesting(_)
Nesting(x) ==
  IF x # << >> /\ Head(x) \in { "(", "!" } THEN 1 + Nesting(Tail(x)) ELSE 0

Operands == (Len(parts) + 1) \div 2
OperandAt(i) == parts[2 * i - 1]
Flat == \A i \in 1..Operands : OperandAt(i) = PlainOperand

\* er = eval(expr), with the depth of the recursion of _parseExpr(ps)
EvalDepth ==
  /\ pc = "host"
  /\ \E r \in {eval(expr)} : \E b \in Bools(r) : er' = Resolve(r, b)
  /\ verdict' = ExprDepth(expr, ParseState0)
  /\ pc' = "done"
  /\ _variables' = AfterGet(_variables)
  /\ _methods' = AfterGet(_methods)
  /\ UNCHANGED <<expr, garbage, ref, parts>>

InitDepth == Constructed /\ garbage = << >>

NextDepth ==
  \/ \E n \in {1, 2} : ref = << >> /\ setVarInt(<< "a" >>, n)
  \/ \E x \in { PlainOperand } \cup NestedOperands :
        /\ ref # << >> /\ Len(parts) % 2 = 0 /\ Operands < MaxOperands
        /\ AppendPiece(x)
  \/ \E op \in Operators : Len(parts) % 2 = 1 /\ AppendPiece(op)
  \/ Len(parts) % 2 = 1 /\ EvalDepth

SpecDepth == InitDepth /\ [][NextDepth]_vars

C21_CursorBound ==
  pc = "done" => verdict.ps.next <= Len(expr) + 1

====
